---- MODULE Spec2Model ----
(***************************************************************************)
(* Model of UniversalPDFProcessor (extrair_docling.py): the extraction,   *)
(* scoring, error analysis, correction, sanitization and formatting       *)
(* pipeline of process_file, and its pure text functions.                 *)
(*                                                                         *)
(* A text is a sequence of characters.  An ASCII character is the         *)
(* one-character string; any other character is named by its code point. *)
(***************************************************************************)
EXTENDS Integers, Sequences, FiniteSets, TLC

(* ------------------------------ characters ----------------------------- *)

NL == "\n"
NUL == "U+0000"
SECT == "U+00A7"
A_TILDE == "U+00C3"
I_GRAVE == "U+00CC"
A_TILDE_LOW == "U+00E3"
A_CIRC == "U+00E2"
C_CEDIL == "U+00E7"
E_CIRC == "U+00EA"
I_CIRC == "U+00EE"
O_ACUTE == "U+00F3"
I_ACUTE_UP == "U+00CD"
ORD_MASC == "U+00BA"
DEGREE == "U+00B0"
SOFT_HYPHEN == "U+00AD"
ZWSP == "U+200B"
BULLET == "U+2022"
EURO == "U+20AC"
TRADEMARK == "U+2122"
LDQUO == "U+201C"
OE_LIG == "U+0153"
DQUOTE == "\""
REPLACEMENT == "U+FFFD"
DECODED_OTHER == "U+E000"
SURROGATE == "U+D800"

LowerAscii == {"a","b","c","d","e","f","g","h","i","j","k","l","m",
               "n","o","p","q","r","s","t","u","v","w","x","y","z"}
UpperAscii == {"A","B","C","D","E","F","G","H","I","J","K","L","M",
               "N","O","P","Q","R","S","T","U","V","W","X","Y","Z"}
Digits == {"0","1","2","3","4","5","6","7","8","9"}

\* the letters of U+00C0..U+00FF that the model uses
Latin1Upper == {A_TILDE, I_GRAVE, I_ACUTE_UP}
Latin1Lower == {"U+00E0", "U+00E1", A_CIRC, A_TILDE_LOW, C_CEDIL, "U+00E9", E_CIRC,
                "U+00EC", "U+00ED", I_CIRC, "U+00F0", O_ACUTE, "U+00F5", "U+00FA"}
\* the other characters of U+0080..U+00FF that the model uses
Latin1Symbols == {"U+00A1", "U+00A2", "U+00A3", SECT, "U+00A9", SOFT_HYPHEN, DEGREE}
Latin1WordSymbols == {"U+00AA", "U+00B3", "U+00B5", ORD_MASC}

\* str.isascii
IsAscii(c) ==
  c \in LowerAscii \cup UpperAscii \cup Digits
        \cup {" ", NL, NUL, ".", ",", ";", ":", "?", "!", "@", "#", "$", "%",
              "&", "*", "(", ")", "_", "+", "=", "-", "[", "]", "{", "}",
              "|", "'", "<", ">", "/", "^", "~", DQUOTE}

\* regex \w on str: alphanumeric in Unicode, or underscore
IsWord(c) ==
  c \in LowerAscii \cup UpperAscii \cup Digits \cup {"_"}
        \cup Latin1Upper \cup Latin1Lower \cup Latin1WordSymbols \cup {OE_LIG}

\* regex \s on str
IsSpace(c) == c \in {" ", NL}

\* regex \d
IsDigit(c) == c \in Digits

\* str.lower of one character
LowerChar(c) ==
  CASE c = "A" -> "a" [] c = "B" -> "b" [] c = "C" -> "c" [] c = "D" -> "d"
    [] c = "E" -> "e" [] c = "F" -> "f" [] c = "G" -> "g" [] c = "H" -> "h"
    [] c = "I" -> "i" [] c = "J" -> "j" [] c = "K" -> "k" [] c = "L" -> "l"
    [] c = "M" -> "m" [] c = "N" -> "n" [] c = "O" -> "o" [] c = "P" -> "p"
    [] c = "Q" -> "q" [] c = "R" -> "r" [] c = "S" -> "s" [] c = "T" -> "t"
    [] c = "U" -> "u" [] c = "V" -> "v" [] c = "W" -> "w" [] c = "X" -> "x"
    [] c = "Y" -> "y" [] c = "Z" -> "z"
    [] c = A_TILDE -> A_TILDE_LOW
    [] c = I_GRAVE -> "U+00EC"
    [] c = I_ACUTE_UP -> "U+00ED"
    [] OTHER -> c

(* ------------------------------ str methods ---------------------------- *)

\* s repeated k times (s * k)
Rep(s, k) == [i \in 1..(k * Len(s)) |-> s[((i - 1) % Len(s)) + 1]]

\* t[i:] starts with p (positions from 1)
StartsAt(t, i, p) ==
  /\ i + Len(p) - 1 <= Len(t)
  /\ \A k \in 1..Len(p) : t[i + k - 1] = p[k]

\* p in t
Contains(t, p) == \E i \in 1..(Len(t) - Len(p) + 1) : StartsAt(t, i, p)

\* the characters of t from position i on
From(t, i) == SubSeq(t, i, Len(t))

\* the first position j >= i with j > Len(t) or hit[j], for a set hit of positions
FirstIn(t, i, hit) ==
  IF i > Len(t) THEN i
  ELSE CHOOSE j \in i..(Len(t) + 1) :
         /\ j = Len(t) + 1 \/ j \in hit
         /\ \A k \in i..(j - 1) : k \notin hit

\* the first position >= i where p occurs (Len(t) + 1 if none)
Find(t, p, i) ==
  IF i > Len(t) THEN i
  ELSE CHOOSE j \in i..(Len(t) + 1) :
         /\ j = Len(t) + 1 \/ StartsAt(t, j, p)
         /\ \A k \in i..(j - 1) : ~StartsAt(t, k, p)

\* str.count: the non-overlapping occurrences of p, scanning from position i
RECURSIVE CountFrom(_, _, _)
CountFrom(t, p, i) ==
  LET j == Find(t, p, i)
  IN  IF j > Len(t) THEN 0 ELSE 1 + CountFrom(t, p, j + Len(p))

StrCount(t, p) ==
  IF Len(p) = 1 THEN Cardinality({i \in 1..Len(t) : t[i] = p[1]})
  ELSE CountFrom(t, p, 1)

\* str.replace(old, new), old non-empty: leftmost non-overlapping occurrences
RECURSIVE ReplaceFrom(_, _, _, _)
ReplaceFrom(t, old, new, i) ==
  LET j == Find(t, old, i)
  IN  IF j > Len(t) THEN From(t, i)
      ELSE SubSeq(t, i, j - 1) \o new \o ReplaceFrom(t, old, new, j + Len(old))

StrReplace(t, old, new) == ReplaceFrom(t, old, new, 1)

\* the characters of t that are not in the set drop
DropChars(t, drop) == SelectSeq(t, LAMBDA c : c \notin drop)

\* str.lower
StrLower(t) == [i \in 1..Len(t) |-> LowerChar(t[i])]

\* s.encode('utf-8', 'ignore').decode('utf-8', 'ignore'): a lone surrogate
\* cannot be encoded and is dropped, every other character survives
Utf8Ignore(t) == DropChars(t, {SURROGATE})

\* the first position >= i that holds no whitespace (Len(t) + 1 if none)
SkipSpace(t, i) ==
  IF i > Len(t) THEN i
  ELSE CHOOSE j \in i..(Len(t) + 1) :
         /\ j = Len(t) + 1 \/ ~IsSpace(t[j])
         /\ \A k \in i..(j - 1) : IsSpace(t[k])

\* the first position >= i that holds no word character
SkipWord(t, i) ==
  IF i > Len(t) THEN i
  ELSE CHOOSE j \in i..(Len(t) + 1) :
         /\ j = Len(t) + 1 \/ ~IsWord(t[j])
         /\ \A k \in i..(j - 1) : IsWord(t[k])

\* the first position >= i that holds no digit
SkipDigits(t, i) ==
  IF i > Len(t) THEN i
  ELSE CHOOSE j \in i..(Len(t) + 1) :
         /\ j = Len(t) + 1 \/ ~IsDigit(t[j])
         /\ \A k \in i..(j - 1) : IsDigit(t[k])

(* --------------------------- detect_language --------------------------- *)

RECURSIVE SumCounts(_, _, _)
SumCounts(t, words, k) ==
  IF k > Len(words) THEN 0 ELSE StrCount(t, words[k]) + SumCounts(t, words, k + 1)

PtWords == << <<"o">>, <<"a">>, <<"d","e">>, <<"q","u","e">>, <<"e">> >>
EnWords == << <<"t","h","e">>, <<"a","n","d">>, <<"o","f">>, <<"t","o">>, <<"i","n">> >>

detect_language(text) ==
  LET pt_indicators == SumCounts(StrLower(text), PtWords, 1)
      en_indicators == SumCounts(StrLower(text), EnWords, 1)
  IN  IF pt_indicators > en_indicators THEN "portuguese"
      ELSE IF en_indicators > pt_indicators THEN "english"
      ELSE "unknown"

(* ------------------------ _evaluate_text_quality ----------------------- *)

\* the length below which a text scores 0
MinQualityLen == 100

\* c.isalnum() or c.isspace() or c in ',.;:!?()[]{}@#$%&*_+-=/'
IsValidChar(c) ==
  \/ IsWord(c) /\ c # "_"
  \/ IsSpace(c)
  \/ c \in {",", ".", ";", ":", "!", "?", "(", ")", "[", "]", "{", "}",
            "@", "#", "$", "%", "&", "*", "_", "+", "-", "=", "/"}

\* the three counts of the scorer; the marker list of the code names U+FFFD twice
valid_chars(text) == Cardinality({i \in 1..Len(text) : IsValidChar(text[i])})
space_count(text) == StrCount(text, <<" ">>)
problem_chars(text) ==
  StrCount(text, <<REPLACEMENT>>) + StrCount(text, <<NUL>>) + StrCount(text, <<REPLACEMENT>>)

Min(a, b) == IF a < b THEN a ELSE b

\* 0.1 < space_ratio < 0.3
SpaceInRange(text) ==
  10 * space_count(text) > Len(text) /\ 10 * space_count(text) < 3 * Len(text)

\* a scorer that does not reject texts shorter than the minimum
_evaluate_text_quality_NoMinLen(text) ==
  LET n == Len(text)
  IN  IF n = 0 THEN [num |-> 0, den |-> 1]
      ELSE [num |-> 60 * valid_chars(text)
                    + (IF SpaceInRange(text) THEN 2 * n ELSE 0)
                    + 20 * (n - Min(10 * problem_chars(text), n)),
            den |-> 100 * n]

\* a scorer that rewards problem characters instead of penalising them
_evaluate_text_quality_PenaltyInverted(text) ==
  IF Len(text) < MinQualityLen THEN [num |-> 0, den |-> 1]
  ELSE LET n == Len(text)
       IN  [num |-> 60 * valid_chars(text)
                    + (IF SpaceInRange(text) THEN 2 * n ELSE 0)
                    + 20 * Min(10 * problem_chars(text), n),
            den |-> 100 * n]

\* The score is the exact fraction num / den (den > 0):
\*   0.6 * V/n + 0.2 * (0.1 or 0) + 0.2 * (1 - min(10 * P/n, 1)),  den = 100 * n
_evaluate_text_quality(text) ==
  IF Len(text) < MinQualityLen THEN [num |-> 0, den |-> 1]
  ELSE LET n == Len(text)
       IN  [num |-> 60 * valid_chars(text)
                    + (IF SpaceInRange(text) THEN 2 * n ELSE 0)
                    + 20 * (n - Min(10 * problem_chars(text), n)),
            den |-> 100 * n]

\* a comparison that also lets an equal score replace the best one
ScoreGE(a, b) == a.num * b.den >= b.num * a.den

\* score comparisons a > b, a = b on fractions
ScoreGT(a, b) == a.num * b.den > b.num * a.den
ScoreEQ(a, b) == a.num * b.den = b.num * a.den
ZeroScore == [num |-> 0, den |-> 1]

(* ---------------------------- analyze_errors --------------------------- *)

\* a character the class [^\w\s.,;:?!@#$%&*()_+=\-[\]{}\\|"'<>/À-ÿ] matches
IsInvalidChar(c) ==
  ~ \/ IsWord(c)
    \/ IsSpace(c)
    \/ c \in {".", ",", ";", ":", "?", "!", "@", "#", "$", "%", "&", "*", "(",
              ")", "_", "+", "=", "-", "[", "]", "{", "}", "|", DQUOTE, "'",
              "<", ">", "/"}
    \/ c \in Latin1Upper \cup Latin1Lower

\* re.findall of the invalid-character class: one match per invalid character
FindInvalid(t) ==
  LET hits == SelectSeq(t, LAMBDA c : IsInvalidChar(c))
  IN  [k \in 1..Len(hits) |-> <<hits[k]>>]

\* the first alternative (in pattern order) that matches at position i, or <<>>
RECURSIVE FirstAlt(_, _, _, _)
FirstAlt(t, i, alts, k) ==
  IF k > Len(alts) THEN <<>>
  ELSE IF StartsAt(t, i, alts[k]) THEN alts[k]
  ELSE FirstAlt(t, i, alts, k + 1)

\* re.findall of an alternation of literals
RECURSIVE FindAlts(_, _, _)
FindAlts(t, alts, i) ==
  LET j == FirstIn(t, i, {x \in i..Len(t) : FirstAlt(t, x, alts, 1) # <<>>})
  IN  IF j > Len(t) THEN <<>>
      ELSE <<FirstAlt(t, j, alts, 1)>> \o FindAlts(t, alts, j + Len(FirstAlt(t, j, alts, 1)))

\* Ã[çãáéóõêâàúí]|PîS|Gradua,ÌO|CAPêTULO
PtErrorAlts ==
  << <<A_TILDE, C_CEDIL>>, <<A_TILDE, A_TILDE_LOW>>, <<A_TILDE, "U+00E1">>,
     <<A_TILDE, "U+00E9">>, <<A_TILDE, O_ACUTE>>, <<A_TILDE, "U+00F5">>,
     <<A_TILDE, E_CIRC>>, <<A_TILDE, A_CIRC>>, <<A_TILDE, "U+00E0">>,
     <<A_TILDE, "U+00FA">>, <<A_TILDE, "U+00ED">>,
     <<"P", I_CIRC, "S">>,
     <<"G","r","a","d","u","a",",", I_GRAVE, "O">>,
     <<"C","A","P", E_CIRC, "T","U","L","O">> >>

\* â€|â€“|â€™|â€œ|â€ (the second alternative ends in U+201C in the source)
EnErrorAlts ==
  << <<A_CIRC, EURO>>, <<A_CIRC, EURO, LDQUO>>, <<A_CIRC, EURO, TRADEMARK>>,
     <<A_CIRC, EURO, OE_LIG>>, <<A_CIRC, EURO>> >>

\* a match of \b\w+-\s*\n\s*\w+\b starting at position i:
\* [ok, j (the hyphen), k (start of the second word), e (one past the match)]
HyphenAt(t, i) ==
  LET j == SkipWord(t, i)
      k == SkipSpace(t, j + 1)
      e == SkipWord(t, k)
  IN  IF /\ IsWord(t[i])
         /\ (i = 1 \/ ~IsWord(t[i - 1]))
         /\ j <= Len(t) /\ t[j] = "-"
         /\ \E x \in (j + 1)..(k - 1) : t[x] = NL
         /\ k <= Len(t) /\ IsWord(t[k])
      THEN [ok |-> TRUE, j |-> j, k |-> k, e |-> e]
      ELSE [ok |-> FALSE, j |-> 0, k |-> 0, e |-> 0]

\* the first position >= i where the hyphenation pattern matches
NextHyphen(t, i) == FirstIn(t, i, {x \in i..Len(t) : HyphenAt(t, x).ok})

\* len(re.findall(r'\b\w+-\s*\n\s*\w+\b', text))
RECURSIVE CountHyphenated(_, _)
CountHyphenated(t, i) ==
  LET j == NextHyphen(t, i)
  IN  IF j > Len(t) THEN 0 ELSE 1 + CountHyphenated(t, HyphenAt(t, j).e)

HYPHENATED_WORD == <<"h","y","p","h","e","n","a","t","e","d","_","w","o","r","d">>

\* Counter: the keys in insertion order, each with its count
RECURSIVE CounterIndex(_, _, _)
CounterIndex(counter, key, k) ==
  IF k > Len(counter) THEN 0
  ELSE IF counter[k].key = key THEN k
  ELSE CounterIndex(counter, key, k + 1)

CounterAdd(counter, key) ==
  LET k == CounterIndex(counter, key, 1)
  IN  IF k = 0 THEN Append(counter, [key |-> key, n |-> 1])
      ELSE [counter EXCEPT ![k].n = @ + 1]

\* Counter.update(items)
RECURSIVE CounterUpdate(_, _, _)
CounterUpdate(counter, items, k) ==
  IF k > Len(items) THEN counter
  ELSE CounterUpdate(CounterAdd(counter, items[k]), items, k + 1)

\* the table common_fixes, as (key, value) pairs
common_fixes ==
  << << <<A_TILDE, SECT>>, <<C_CEDIL>> >>,
     << <<A_TILDE, "U+00A3">>, <<A_TILDE_LOW>> >>,
     << <<A_TILDE, "U+00A1">>, <<"U+00E1">> >>,
     << <<A_TILDE, "U+00A9">>, <<"U+00E9">> >>,
     << <<A_TILDE, "U+00B3">>, <<O_ACUTE>> >>,
     << <<A_TILDE, "U+00B5">>, <<"U+00F5">> >>,
     << <<A_TILDE, "U+00AA">>, <<E_CIRC>> >>,
     << <<A_TILDE, "U+00A2">>, <<A_CIRC>> >>,
     << <<A_TILDE, " ">>, <<"U+00E0">> >>,
     << <<A_TILDE, ORD_MASC>>, <<"U+00FA">> >>,
     << <<A_TILDE, SOFT_HYPHEN>>, <<"U+00ED">> >>,
     << <<"P", I_CIRC, "S">>, <<"P", O_ACUTE, "s">> >>,
     << <<"G","r","a","d","u","a",",", I_GRAVE, "O">>,
        <<"G","r","a","d","u","a", C_CEDIL, A_TILDE_LOW, "o">> >>,
     << <<"C","A","P", E_CIRC, "T","U","L","O">>,
        <<"C","A","P", I_ACUTE_UP, "T","U","L","O">> >>,
     << <<A_CIRC, EURO, OE_LIG>>, <<DQUOTE>> >>,
     << <<A_CIRC, EURO>>, <<DQUOTE>> >>,
     << <<A_CIRC, EURO, TRADEMARK>>, <<"'">> >>,
     << <<A_CIRC, EURO, LDQUO>>, <<"-">> >> >>

\* dict lookup in a sequence of (key, value) pairs: the index of key, or 0
RECURSIVE PairIndex(_, _, _)
PairIndex(pairs, key, k) ==
  IF k > Len(pairs) THEN 0
  ELSE IF pairs[k][1] = key THEN k
  ELSE PairIndex(pairs, key, k + 1)

\* dict[key] = value: an existing key keeps its place
DictSet(pairs, key, value) ==
  LET k == PairIndex(pairs, key, 1)
  IN  IF k = 0 THEN Append(pairs, <<key, value>>)
      ELSE [pairs EXCEPT ![k] = <<key, value>>]

\* unidecode of one character (the library's transliteration table)
UnidecodeChar(c) ==
  CASE IsAscii(c) -> <<c>>
    [] c \in {A_TILDE} -> <<"A">>
    [] c \in {I_GRAVE, I_ACUTE_UP} -> <<"I">>
    [] c \in {A_TILDE_LOW, A_CIRC, "U+00E0", "U+00E1"} -> <<"a">>
    [] c = C_CEDIL -> <<"c">>
    [] c \in {E_CIRC, "U+00E9"} -> <<"e">>
    [] c \in {I_CIRC, "U+00EC", "U+00ED"} -> <<"i">>
    [] c \in {O_ACUTE, "U+00F5", ORD_MASC} -> <<"o">>
    [] c = "U+00AA" -> <<"a">>
    [] c = "U+00B3" -> <<"3">>
    [] c = "U+00B5" -> <<"u">>
    [] c = "U+00A1" -> <<"!">>
    [] c = "U+00A2" -> <<"C","/">>
    [] c = "U+00A3" -> <<"P","S">>
    [] c = "U+00A9" -> <<"(","c",")">>
    [] c = "U+00F0" -> <<"d">>
    [] c = "U+00FA" -> <<"u">>
    [] c = DEGREE -> <<"d","e","g">>
    [] c = SECT -> <<"S","S">>
    [] c = BULLET -> <<"*">>
    [] c = EURO -> <<"E","U","R">>
    [] c = TRADEMARK -> <<"t","m">>
    [] c = LDQUO -> <<DQUOTE>>
    [] c = OE_LIG -> <<"o","e">>
    [] OTHER -> <<>>

RECURSIVE UnidecodeFrom(_, _)
UnidecodeFrom(s, i) ==
  IF i > Len(s) THEN <<>> ELSE UnidecodeChar(s[i]) \o UnidecodeFrom(s, i + 1)

unidecode(s) == UnidecodeFrom(s, 1)

\* the loop over error_patterns that fills correction_map
RECURSIVE BuildCorrections(_, _, _)
BuildCorrections(error_patterns, correction_map, k) ==
  IF k > Len(error_patterns) THEN correction_map
  ELSE LET error == error_patterns[k].key
           f == PairIndex(common_fixes, error, 1)
           corrected == unidecode(error)
       IN  BuildCorrections(
             error_patterns,
             IF f # 0 THEN DictSet(correction_map, error, common_fixes[f][2])
             ELSE IF corrected # error /\ Len(corrected) > 0
                  THEN DictSet(correction_map, error, corrected)
                  ELSE correction_map,
             k + 1)

\* error_patterns after the Counter.update calls of analyze_errors
CollectErrors(text, error_patterns, language) ==
  LET c1 == CounterUpdate(error_patterns, FindInvalid(text), 1)
      c2 == IF language = "portuguese"
            THEN CounterUpdate(c1, FindAlts(text, PtErrorAlts, 1), 1)
            ELSE IF language = "english"
            THEN CounterUpdate(c1, FindAlts(text, EnErrorAlts, 1), 1)
            ELSE c1
  IN  CounterUpdate(c2, Rep(<<HYPHENATED_WORD>>, CountHyphenated(text, 1)), 1)

\* analyze_errors: the new error_patterns and correction_map
analyze_errors(text, error_patterns, correction_map, language) ==
  LET ep == CollectErrors(text, error_patterns, language)
  IN  [error_patterns |-> ep,
       correction_map |-> BuildCorrections(ep, correction_map, 1)]

(* ------------------------------ auto_correct --------------------------- *)

\* for error, correction in correction_map.items(): text = text.replace(...)
RECURSIVE ApplyCorrections(_, _, _)
ApplyCorrections(t, correction_map, k) ==
  IF k > Len(correction_map) THEN t
  ELSE ApplyCorrections(StrReplace(t, correction_map[k][1], correction_map[k][2]),
                        correction_map, k + 1)

\* re.sub(r'(\b\w+)-\s*\n\s*(\w+\b)', r'\1\2', text)
RECURSIVE DeHyphenate(_, _)
DeHyphenate(t, i) ==
  LET x == NextHyphen(t, i)
      m == HyphenAt(t, x)
  IN  IF x > Len(t) THEN From(t, i)
      ELSE SubSeq(t, i, m.j - 1) \o SubSeq(t, m.k, m.e - 1) \o DeHyphenate(t, m.e)

\* re.sub(r'\s+', ' ', text)
RECURSIVE CollapseSpace(_, _)
CollapseSpace(t, i) ==
  LET x == FirstIn(t, i, {y \in i..Len(t) : IsSpace(t[y])})
  IN  IF x > Len(t) THEN From(t, i)
      ELSE SubSeq(t, i, x - 1) \o <<" ">> \o CollapseSpace(t, SkipSpace(t, x))

\* a match of (\w)\s*-\s*(\w) starting at position i: [ok, k (the second \w)]
ReattachAt(t, i) ==
  LET j == SkipSpace(t, i + 1)
      k == SkipSpace(t, j + 1)
  IN  IF /\ IsWord(t[i])
         /\ j <= Len(t) /\ t[j] = "-"
         /\ k <= Len(t) /\ IsWord(t[k])
      THEN [ok |-> TRUE, k |-> k]
      ELSE [ok |-> FALSE, k |-> 0]

\* re.sub(r'(\w)\s*-\s*(\w)', r'\1-\2', text)
RECURSIVE ReattachHyphen(_, _)
ReattachHyphen(t, i) ==
  LET x == FirstIn(t, i, {y \in i..Len(t) : ReattachAt(t, y).ok})
      k == ReattachAt(t, x).k
  IN  IF x > Len(t) THEN From(t, i)
      ELSE SubSeq(t, i, x) \o <<"-", t[k]>> \o ReattachHyphen(t, k + 1)

\* [a-zà-ÿ] and [A-ZÀ-Ÿ] (U+00C0..U+0178, which holds the lower-case
\* accented letters too)
IsLowerClass(c) == c \in LowerAscii \cup Latin1Lower
IsUpperClass(c) == c \in UpperAscii \cup Latin1Upper \cup Latin1Lower \cup {OE_LIG}

\* ([a-zà-ÿ])\.\s([A-ZÀ-Ÿ]) matches at position i
ParagraphAt(t, i) ==
  /\ i + 3 <= Len(t)
  /\ IsLowerClass(t[i]) /\ t[i + 1] = "." /\ IsSpace(t[i + 2])
  /\ IsUpperClass(t[i + 3])

\* re.sub(r'([a-zà-ÿ])\.\s([A-ZÀ-Ÿ])', r'\1. \n\n\2', text)
RECURSIVE SplitParagraphs(_, _)
SplitParagraphs(t, i) ==
  LET x == FirstIn(t, i, {y \in i..Len(t) : ParagraphAt(t, y)})
  IN  IF x > Len(t) THEN From(t, i)
      ELSE SubSeq(t, i, x) \o <<".", " ", NL, NL, t[x + 3]>> \o SplitParagraphs(t, x + 4)

\* a match of Art\.\s*(\d+)[º°]? starting at position i:
\* [ok, j (first digit), d (one past the digits), e (one past the match)]
ArticleAt(t, i) ==
  LET j == SkipSpace(t, i + 4)
      d == SkipDigits(t, j)
      e == IF d <= Len(t) /\ t[d] \in {ORD_MASC, DEGREE} THEN d + 1 ELSE d
  IN  IF StartsAt(t, i, <<"A","r","t",".">>) /\ d > j
      THEN [ok |-> TRUE, j |-> j, d |-> d, e |-> e]
      ELSE [ok |-> FALSE, j |-> 0, d |-> 0, e |-> 0]

\* re.sub(r'Art\.\s*(\d+)[º°]?', r'**Art. \1**', text)
RECURSIVE BoldArticles(_, _)
BoldArticles(t, i) ==
  LET x == FirstIn(t, i, {y \in i..Len(t) : ArticleAt(t, y).ok})
      m == ArticleAt(t, x)
  IN  IF x > Len(t) THEN From(t, i)
      ELSE SubSeq(t, i, x - 1) \o <<"*","*","A","r","t","."," ">>
           \o SubSeq(t, m.j, m.d - 1) \o <<"*","*">> \o BoldArticles(t, m.e)

\* every character of t is ASCII (str.isascii)
StrIsAscii(t) == \A i \in 1..Len(t) : IsAscii(t[i])

auto_correct(text, correction_map, language) ==
  LET t0 == IF ~StrIsAscii(text) THEN Utf8Ignore(text) ELSE text
      t1 == ApplyCorrections(t0, correction_map, 1)
      t2 == DeHyphenate(t1, 1)
      t3 == CollapseSpace(t2, 1)
      t4 == ReattachHyphen(t3, 1)
  IN  IF language = "portuguese"
      THEN BoldArticles(SplitParagraphs(t4, 1), 1)
      ELSE t4

(* ---------------------------- enhance_structure ------------------------ *)

ChapterWords ==
  << <<"C","A","P", I_ACUTE_UP, "T","U","L","O">>,
     <<"C","A","P","I","T","U","L","O">>,
     <<"C","H","A","P","T","E","R">> >>

\* the first position >= i that holds no character of [IVXLCDM]
SkipRoman(t, i) ==
  IF i > Len(t) THEN i
  ELSE CHOOSE j \in i..(Len(t) + 1) :
         /\ j = Len(t) + 1 \/ t[j] \notin {"I","V","X","L","C","D","M"}
         /\ \A k \in i..(j - 1) : t[k] \in {"I","V","X","L","C","D","M"}

\* a match of \n(\s*)(CAP[ÍI]TULO|CHAPTER)\s+([IVXLCDM]+)(\s*) at position i:
\* [ok, w (the word), k (first numeral), r (one past the numeral), e (one past the match)]
ChapterAt(t, i) ==
  LET j == SkipSpace(t, i + 1)
      w == FirstAlt(t, j, ChapterWords, 1)
      k == SkipSpace(t, j + Len(w))
      r == SkipRoman(t, k)
  IN  IF t[i] = NL /\ w # <<>> /\ k > j + Len(w) /\ r > k
      THEN [ok |-> TRUE, w |-> w, k |-> k, r |-> r, e |-> SkipSpace(t, r)]
      ELSE [ok |-> FALSE, w |-> <<>>, k |-> 0, r |-> 0, e |-> 0]

\* re.sub(r'\n(\s*)(CAP[ÍI]TULO|CHAPTER)\s+([IVXLCDM]+)(\s*)', r'\n## \2 \3\n', text)
RECURSIVE MarkChapters(_, _)
MarkChapters(t, i) ==
  LET x == FirstIn(t, i, {y \in i..Len(t) : ChapterAt(t, y).ok})
      m == ChapterAt(t, x)
  IN  IF x > Len(t) THEN From(t, i)
      ELSE SubSeq(t, i, x - 1) \o <<NL, "#", "#", " ">> \o m.w \o <<" ">>
           \o SubSeq(t, m.k, m.r - 1) \o <<NL>> \o MarkChapters(t, m.e)

\* the longest prefix p..q-1 of the whitespace run at p that \s+ can take so
\* that [^\n]+ still finds a character: q, or 0 when there is none
SpaceThenText(t, p) ==
  LET ok == {q \in (p + 1)..SkipSpace(t, p) : q <= Len(t) /\ t[q] # NL}
  IN  IF ok = {} THEN 0 ELSE CHOOSE q \in ok : \A r \in ok : r <= q

\* the first position >= i that holds a newline (Len(t) + 1 if none)
SkipLine(t, i) == Find(t, <<NL>>, i)

\* a match of \n(\d+\.\d+\.?\s+)([^\n]+) at position i: [ok, e (one past the match)]
SectionAt(t, i) ==
  LET a == SkipDigits(t, i + 1)
      b == SkipDigits(t, a + 1)
      c == IF b <= Len(t) /\ t[b] = "." THEN b + 1 ELSE b
      \* \.? gives the dot back when \s+ cannot follow it
      p == IF c <= Len(t) /\ IsSpace(t[c]) THEN c ELSE b
      q == SpaceThenText(t, p)
  IN  IF /\ t[i] = NL /\ a > i + 1
         /\ a <= Len(t) /\ t[a] = "." /\ b > a + 1
         /\ q # 0
      THEN [ok |-> TRUE, e |-> SkipLine(t, q)]
      ELSE [ok |-> FALSE, e |-> 0]

\* re.sub(r'\n(\d+\.\d+\.?\s+)([^\n]+)', r'\n### \1\2\n', text)
RECURSIVE MarkSections(_, _)
MarkSections(t, i) ==
  LET x == FirstIn(t, i, {y \in i..Len(t) : SectionAt(t, y).ok})
      e == SectionAt(t, x).e
  IN  IF x > Len(t) THEN From(t, i)
      ELSE SubSeq(t, i, x - 1) \o <<NL, "#", "#", "#", " ">> \o SubSeq(t, x + 1, e - 1)
           \o <<NL>> \o MarkSections(t, e)

\* a match of \n(\s*[-*•])\s+ at position i: [ok, e (one past the match)]
BulletAt(t, i) ==
  LET j == SkipSpace(t, i + 1)
      e == SkipSpace(t, j + 1)
  IN  IF /\ t[i] = NL
         /\ j <= Len(t) /\ t[j] \in {"-", "*", BULLET}
         /\ e > j + 1
      THEN [ok |-> TRUE, e |-> e]
      ELSE [ok |-> FALSE, e |-> 0]

\* re.sub(r'\n(\s*[-*•])\s+', r'\n- ', text)
RECURSIVE NormalizeBullets(_, _)
NormalizeBullets(t, i) ==
  LET x == FirstIn(t, i, {y \in i..Len(t) : BulletAt(t, y).ok})
  IN  IF x > Len(t) THEN From(t, i)
      ELSE SubSeq(t, i, x - 1) \o <<NL, "-", " ">> \o NormalizeBullets(t, BulletAt(t, x).e)

enhance_structure(text) ==
  NormalizeBullets(MarkSections(MarkChapters(text, 1), 1), 1)

(* ------------------------------ sanitize_text -------------------------- *)

\* the characters of [\x00-\x1F\x7F-\x9F] that the model uses
ControlChars == {NUL, NL}

\* the first position >= i that holds no newline
SkipNewlines(t, i) ==
  IF i > Len(t) THEN i
  ELSE CHOOSE j \in i..(Len(t) + 1) :
         /\ j = Len(t) + 1 \/ t[j] # NL
         /\ \A k \in i..(j - 1) : t[k] = NL

\* re.sub(r'\n{3,}', '\n\n', text)
RECURSIVE CollapseNewlines(_, _)
CollapseNewlines(t, i) ==
  LET x == FirstIn(t, i, {y \in i..Len(t) : SkipNewlines(t, y) >= y + 3})
  IN  IF x > Len(t) THEN From(t, i)
      ELSE SubSeq(t, i, x - 1) \o <<NL, NL>> \o CollapseNewlines(t, SkipNewlines(t, x))

sanitize_text(text) ==
  LET s1 == DropChars(text, ControlChars)
      s2 == Utf8Ignore(s1)
      s3 == DropChars(s2, {REPLACEMENT, SOFT_HYPHEN, ZWSP})
      s4 == CollapseSpace(s3, 1)
  IN  CollapseNewlines(s4, 1)

(* --------------------------- fallback_sanitization --------------------- *)

\* the characters up to U+00FF
IsLatin1(c) ==
  IsAscii(c) \/ c \in Latin1Upper \cup Latin1Lower \cup Latin1Symbols \cup Latin1WordSymbols

\* Latin-1 bytes read as UTF-8: continuation bytes (0x80..0xBF), and the lead
\* bytes of two-, three- and four-byte sequences
IsContinuation(c) == c \in Latin1Symbols \cup Latin1WordSymbols
SeqLength(c) ==
  CASE c \in {A_TILDE, I_GRAVE, I_ACUTE_UP} -> 2
    [] c \in {"U+00E0", "U+00E1", A_CIRC, A_TILDE_LOW, C_CEDIL, "U+00E9", E_CIRC,
              "U+00EC", I_CIRC} -> 3
    [] c \in {"U+00F0", O_ACUTE} -> 4
    [] OTHER -> 0

\* the character that the bytes 0xC3 c decode to
DecodeC3(c) ==
  CASE c = "U+00A1" -> "U+00E1" [] c = "U+00A2" -> A_CIRC
    [] c = "U+00A3" -> A_TILDE_LOW [] c = SECT -> C_CEDIL
    [] c = "U+00A9" -> "U+00E9" [] c = "U+00AA" -> E_CIRC
    [] c = SOFT_HYPHEN -> "U+00ED" [] c = DEGREE -> "U+00F0"
    [] c = "U+00B3" -> O_ACUTE [] c = "U+00B5" -> "U+00F5"
    [] c = ORD_MASC -> "U+00FA"
    [] OTHER -> DECODED_OTHER

\* a whole UTF-8 sequence starts at position i of the Latin-1 bytes of t
SequenceAt(t, i) ==
  /\ SeqLength(t[i]) > 0
  /\ i + SeqLength(t[i]) - 1 <= Len(t)
  /\ \A k \in 1..(SeqLength(t[i]) - 1) : IsContinuation(t[i + k])

\* bytes.decode('utf-8', errors='ignore') of the Latin-1 encoding of t
RECURSIVE DecodeLatin1AsUtf8(_, _)
DecodeLatin1AsUtf8(t, i) ==
  LET x == FirstIn(t, i, {y \in i..Len(t) : ~IsAscii(t[y])})
  IN  IF x > Len(t) THEN From(t, i)
      ELSE IF SequenceAt(t, x)
      THEN SubSeq(t, i, x - 1)
           \o <<IF t[x] = A_TILDE THEN DecodeC3(t[x + 1]) ELSE DECODED_OTHER>>
           \o DecodeLatin1AsUtf8(t, x + SeqLength(t[x]))
      ELSE SubSeq(t, i, x - 1) \o DecodeLatin1AsUtf8(t, x + 1)

\* the answers of chardet.detect that the model draws from; Python has no
\* codec for the last one, so encode raises LookupError
ChardetEncodings == {"ascii", "ISO-8859-1", "utf-8", "EUC-TW"}

KeepAscii(t) == SelectSeq(t, LAMBDA c : IsAscii(c))
KeepLatin1(t) == SelectSeq(t, LAMBDA c : IsLatin1(c))

\* fallback_sanitization, chardet having answered detected_encoding
fallback_sanitization(text, detected_encoding) ==
  CASE detected_encoding = "ascii" -> sanitize_text(KeepAscii(text))
    [] detected_encoding = "ISO-8859-1" ->
         sanitize_text(DecodeLatin1AsUtf8(KeepLatin1(text), 1))
    [] detected_encoding = "utf-8" -> sanitize_text(Utf8Ignore(text))
    [] OTHER -> KeepAscii(text)

(* --------------------------- process_with_docling ---------------------- *)

\* what the external Formatter (DocumentConverter) does with the staged file:
\* it returns markdown, returns markdown that holds a replacement character,
\* or raises (UnicodeEncodeError or any other exception)
FormatterOutcomes == {"markdown", "markdown_with_marker", "UnicodeEncodeError", "Exception"}

FormatterRaises(outcome) == outcome \in {"UnicodeEncodeError", "Exception"}

\* result.document.export_to_markdown() for the sanitized text
export_to_markdown(sanitized_text, outcome) ==
  IF outcome = "markdown_with_marker" THEN sanitized_text \o <<REPLACEMENT>>
  ELSE sanitized_text

\* what a call gives its caller: a returned text, or an exception that leaves it
Returned(text, fallbacks) == [raised |-> FALSE, text |-> text, fallbacks |-> fallbacks]
Raised == [raised |-> TRUE, text |-> <<>>, fallbacks |-> 0]

\* a process_with_docling that handles UnicodeEncodeError only
process_with_docling_NoGenericHandler(text, outcome, enc) ==
  IF outcome = "UnicodeEncodeError" THEN Returned(fallback_sanitization(text, enc), 1)
  ELSE IF outcome = "Exception" THEN Raised
  ELSE Returned(export_to_markdown(sanitize_text(text), outcome), 0)

\* process_with_docling; enc is chardet's answer if the fallback runs.
\* Both except clauses return self.fallback_sanitization(text).
process_with_docling(text, outcome, enc) ==
  IF outcome = "UnicodeEncodeError" THEN Returned(fallback_sanitization(text, enc), 1)
  ELSE IF outcome = "Exception" THEN Returned(fallback_sanitization(text, enc), 1)
  ELSE Returned(export_to_markdown(sanitize_text(text), outcome), 0)

(* ------------------------------- documents ----------------------------- *)

\* what one extractor does on a document: it raises inside (caught, '')
\* or returns the text of the pages
Fails == [fails |-> TRUE, text |-> <<>>]
Gives(text) == [fails |-> FALSE, text |-> text]

\* the length of the filler that lifts a text over the scorer's minimum
FillLen == 100

TextPt == <<"P", I_CIRC, "S", " ">> \o Rep(<<"a">>, FillLen)
TextPt2 == <<"P", I_CIRC, "S", " ">> \o Rep(<<"e">>, FillLen)
TextEn == <<"P", I_CIRC, "S", " ">> \o Rep(<<"i", "n">>, FillLen \div 2)
TextNoisy == <<SECT, EURO, " ">> \o Rep(<<"a">>, FillLen)
TextMarked == <<REPLACEMENT, A_TILDE, SECT, " ">> \o Rep(<<"x">>, FillLen)
TextArt == <<"A","r","t","."," ","5"," ","d","e","-",NL,"f"," ">> \o Rep(<<"o">>, FillLen)
TextShort == <<"a", "b", "c">>
TextZero == Rep(<<REPLACEMENT>>, FillLen)

\* the input files: whether the path exists, and what each extractor does
Documents ==
  { [exists |-> FALSE, fitz |-> Fails, plumber |-> Fails],
    [exists |-> TRUE, fitz |-> Fails, plumber |-> Fails],
    [exists |-> TRUE, fitz |-> Gives(<<>>), plumber |-> Gives(TextShort)],
    [exists |-> TRUE, fitz |-> Gives(TextZero), plumber |-> Fails],
    [exists |-> TRUE, fitz |-> Gives(TextPt), plumber |-> Gives(TextPt2)],
    [exists |-> TRUE, fitz |-> Fails, plumber |-> Gives(TextEn)],
    [exists |-> TRUE, fitz |-> Gives(TextNoisy), plumber |-> Gives(TextPt)],
    [exists |-> TRUE, fitz |-> Gives(TextArt), plumber |-> Gives(TextNoisy)],
    [exists |-> TRUE, fitz |-> Gives(TextMarked), plumber |-> Gives(TextShort)] }

\* methods = [self._extract_with_fitz, self._extract_with_pdfplumber]
methods == <<"fitz", "plumber">>

\* method(file_path): the except clause of the extractor turns a failure into ''
_extract_with_fitz(d) == IF d.fitz.fails THEN <<>> ELSE d.fitz.text
_extract_with_pdfplumber(d) == IF d.plumber.fails THEN <<>> ELSE d.plumber.text
RunMethod(name, d) ==
  IF name = "fitz" THEN _extract_with_fitz(d) ELSE _extract_with_pdfplumber(d)
MethodFails(name, d) == IF name = "fitz" THEN d.fitz.fails ELSE d.plumber.fails

\* the encodings chardet.detect reports for detected_encoding (None gives 'utf-8')
DetectedEncodings == {"ascii", "utf-8"}

\* how many process_file calls one processor instance gets
MaxCalls == 2

(* --------------------------------- state ------------------------------- *)

VARIABLES
  error_patterns,          \* self.error_patterns (Counter)
  correction_map,          \* self.correction_map (dict)
  detected_encoding,       \* self.detected_encoding
  language,                \* self.language
  sanitization_attempted,  \* self.sanitization_attempted
  pc,                      \* where the running call stands
  doc,                     \* the document behind input_path
  method,                  \* index of the next extractor of the loop
  best_text, best_score,   \* locals of extract_text
  raw_text, corrected_text, structured_text, sanitized_text, final_text,
  result,                  \* how process_file ended: "None", "text" (final_text
                           \* returned) or the exception that left it
  output_file,             \* the text written under output_dir by this call
  calls,                   \* process_file calls made so far
  ran,                     \* the extractors run by this call, with their scores
  fallback_calls,          \* fallback_sanitization invocations of this call
  formatter_log,           \* the Formatter invocations of this call
  recorrected_text,        \* auto_correct applied to corrected_text
  candidates, scores       \* two extraction candidates and their scores

state == <<error_patterns, correction_map, detected_encoding, language,
           sanitization_attempted>>
locals == <<doc, method, best_text, best_score, raw_text, corrected_text,
            structured_text, sanitized_text, final_text>>
observed == <<result, output_file, calls, ran, fallback_calls, formatter_log>>
probe == <<recorrected_text, candidates, scores>>
vars == <<state, pc, locals, observed, probe>>

NoDocument == [exists |-> FALSE, fitz |-> Fails, plumber |-> Fails]
NoFile == [written |-> FALSE, text |-> <<>>]

\* __init__
Init ==
  /\ error_patterns = <<>>
  /\ correction_map = <<>>
  /\ detected_encoding = "None"
  /\ language = "auto"
  /\ sanitization_attempted = FALSE
  /\ pc = "idle"
  /\ doc = NoDocument
  /\ method = 1
  /\ best_text = <<>> /\ best_score = ZeroScore
  /\ raw_text = <<>> /\ corrected_text = <<>> /\ structured_text = <<>>
  /\ sanitized_text = <<>> /\ final_text = <<>>
  /\ result = "pending"
  /\ output_file = NoFile
  /\ calls = 0
  /\ ran = <<>>
  /\ fallback_calls = 0
  /\ formatter_log = <<>>
  /\ recorrected_text = <<>>
  /\ candidates = << <<>>, <<>> >>
  /\ scores = <<ZeroScore, ZeroScore>>

(* ------------------------------ process_file --------------------------- *)

\* process_file(input_path, output_dir) is called: the flag is reset, and a
\* missing file returns None at once
ProcessFile(d) ==
  /\ pc \in {"idle", "returned"}
  /\ calls < MaxCalls
  /\ calls' = calls + 1
  /\ sanitization_attempted' = FALSE
  /\ doc' = d
  /\ method' = 1 /\ best_text' = <<>> /\ best_score' = ZeroScore
  /\ raw_text' = <<>> /\ corrected_text' = <<>> /\ structured_text' = <<>>
  /\ sanitized_text' = <<>> /\ final_text' = <<>>
  /\ output_file' = NoFile
  /\ ran' = <<>> /\ fallback_calls' = 0 /\ formatter_log' = <<>>
  /\ IF d.exists
     THEN pc' = "extract" /\ result' = "pending"
     ELSE pc' = "returned" /\ result' = "None"
  /\ UNCHANGED <<error_patterns, correction_map, detected_encoding, language>>
  /\ UNCHANGED probe

\* an extraction step in which a failing extractor ends the loop
ExtractMethod_FailureAborts ==
  /\ pc = "extract"
  /\ method <= Len(methods)
  /\ LET text == RunMethod(methods[method], doc)
         score == _evaluate_text_quality(text)
         better == text # <<>> /\ ScoreGT(score, best_score)
     IN  /\ best_text' = IF better THEN text ELSE best_text
         /\ best_score' = IF better THEN score ELSE best_score
         /\ ran' = Append(ran, [method |-> methods[method],
                                failed |-> MethodFails(methods[method], doc),
                                text |-> text,
                                scored |-> text # <<>>,
                                score |-> IF text # <<>> THEN score ELSE ZeroScore])
  /\ method' = IF MethodFails(methods[method], doc)
               THEN Len(methods) + 1 ELSE method + 1
  /\ UNCHANGED <<state, pc, doc, raw_text, corrected_text, structured_text,
                 sanitized_text, final_text, result, output_file, calls,
                 fallback_calls, formatter_log>>
  /\ UNCHANGED probe

\* one turn of the loop of extract_text
ExtractMethod ==
  /\ pc = "extract"
  /\ method <= Len(methods)
  /\ LET text == RunMethod(methods[method], doc)
         score == _evaluate_text_quality(text)
         better == text # <<>> /\ ScoreGT(score, best_score)
     IN  /\ best_text' = IF better THEN text ELSE best_text
         /\ best_score' = IF better THEN score ELSE best_score
         /\ ran' = Append(ran, [method |-> methods[method],
                                failed |-> MethodFails(methods[method], doc),
                                text |-> text,
                                scored |-> text # <<>>,
                                score |-> IF text # <<>> THEN score ELSE ZeroScore])
  /\ method' = method + 1
  /\ UNCHANGED <<state, pc, doc, raw_text, corrected_text, structured_text,
                 sanitized_text, final_text, result, output_file, calls,
                 fallback_calls, formatter_log>>
  /\ UNCHANGED probe

\* the end of extract_text and the test of process_file on what it returned
ExtractDone ==
  /\ pc = "extract"
  /\ method > Len(methods)
  /\ IF best_text = <<>>
     THEN /\ pc' = "returned" /\ result' = "None"
          /\ UNCHANGED <<language, raw_text>>
     ELSE /\ language' = detect_language(best_text)
          /\ raw_text' = best_text
          /\ pc' = "analyze"
          /\ UNCHANGED result
  /\ UNCHANGED <<error_patterns, correction_map, detected_encoding,
                 sanitization_attempted, doc, method, best_text, best_score,
                 corrected_text, structured_text, sanitized_text, final_text,
                 output_file, calls, ran, fallback_calls, formatter_log>>
  /\ UNCHANGED probe

\* self.analyze_errors(raw_text)
AnalyzeErrors ==
  /\ pc = "analyze"
  /\ \E enc \in DetectedEncodings : detected_encoding' = enc
  /\ LET a == analyze_errors(raw_text, error_patterns, correction_map, language)
     IN  /\ error_patterns' = a.error_patterns
         /\ correction_map' = a.correction_map
  /\ pc' = "correct"
  /\ UNCHANGED <<language, sanitization_attempted, locals, observed>>
  /\ UNCHANGED probe

\* analyze_errors has no handler of its own and process_file has none around
\* it: an exception out of one of its library calls leaves process_file at
\* once.  chardet.detect (line 103) raises before anything is assigned;
\* unidecode (line 127) raises on the k-th entry of error_patterns, one that
\* is not a key of common_fixes and is not plain ASCII, when
\* detected_encoding and error_patterns are already assigned and
\* correction_map holds the entries of the turns before k.
AnalyzeErrorsRaises ==
  /\ pc = "analyze"
  /\ \/ UNCHANGED <<error_patterns, correction_map, detected_encoding>>
     \/ LET ep == CollectErrors(raw_text, error_patterns, language)
        IN  \E enc \in DetectedEncodings, k \in 1..Len(ep) :
              /\ PairIndex(common_fixes, ep[k].key, 1) = 0
              /\ ~StrIsAscii(ep[k].key)
              /\ detected_encoding' = enc
              /\ error_patterns' = ep
              /\ correction_map' = BuildCorrections(SubSeq(ep, 1, k - 1), correction_map, 1)
  /\ pc' = "returned" /\ result' = "AnalysisError"
  /\ UNCHANGED <<language, sanitization_attempted, doc, method, best_text,
                 best_score, raw_text, corrected_text, structured_text,
                 sanitized_text, final_text, output_file, calls, ran,
                 fallback_calls, formatter_log>>
  /\ UNCHANGED probe

\* corrected_text = self.auto_correct(raw_text)
AutoCorrect ==
  /\ pc = "correct"
  /\ corrected_text' = auto_correct(raw_text, correction_map, language)
  /\ pc' = "structure"
  /\ UNCHANGED <<state, doc, method, best_text, best_score, raw_text,
                 structured_text, sanitized_text, final_text, observed>>
  /\ UNCHANGED probe

\* structured_text = self.enhance_structure(corrected_text)
EnhanceStructure ==
  /\ pc = "structure"
  /\ structured_text' = enhance_structure(corrected_text)
  /\ pc' = "format"
  /\ UNCHANGED <<state, doc, method, best_text, best_score, raw_text,
                 corrected_text, sanitized_text, final_text, observed>>
  /\ UNCHANGED probe

\* one call of process_with_docling on text: its result goes to final_text
\* and the run goes on at pc value next; an exception would leave process_file
CallFormatter(text, outcome, enc, next) ==
  LET r == process_with_docling(text, outcome, enc)
  IN  /\ formatter_log' = Append(formatter_log,
                                 [input |-> text, outcome |-> outcome, enc |-> enc,
                                  raised |-> r.raised, output |-> r.text])
      /\ fallback_calls' = fallback_calls + r.fallbacks
      /\ IF r.raised
         THEN pc' = "returned" /\ result' = outcome /\ UNCHANGED final_text
         ELSE pc' = next /\ final_text' = r.text /\ UNCHANGED result

\* final_text = self.process_with_docling(structured_text)
Format ==
  /\ pc = "format"
  /\ \E outcome \in FormatterOutcomes, enc \in ChardetEncodings :
       /\ FormatterRaises(outcome) \/ enc = "ascii"
       /\ CallFormatter(structured_text, outcome, enc, "check")
  /\ UNCHANGED <<state, doc, method, best_text, best_score, raw_text,
                 corrected_text, structured_text, sanitized_text,
                 output_file, calls, ran>>
  /\ UNCHANGED probe

\* a retry that re-sanitizes the structured text, not the original extraction
Resanitize_StructuredText ==
  /\ pc = "check"
  /\ Contains(final_text, <<REPLACEMENT>>) /\ ~sanitization_attempted
  /\ sanitization_attempted' = TRUE
  /\ \E enc \in ChardetEncodings :
       sanitized_text' = fallback_sanitization(structured_text, enc)
  /\ fallback_calls' = fallback_calls + 1
  /\ pc' = "reformat"
  /\ UNCHANGED <<error_patterns, correction_map, detected_encoding, language,
                 doc, method, best_text, best_score, raw_text, corrected_text,
                 structured_text, final_text, result, output_file, calls, ran,
                 formatter_log>>
  /\ UNCHANGED probe

\* if "�" in final_text and not self.sanitization_attempted: the flag is
\* set and the original extraction goes through fallback_sanitization
Resanitize ==
  /\ pc = "check"
  /\ Contains(final_text, <<REPLACEMENT>>) /\ ~sanitization_attempted
  /\ sanitization_attempted' = TRUE
  /\ \E enc \in ChardetEncodings : sanitized_text' = fallback_sanitization(raw_text, enc)
  /\ fallback_calls' = fallback_calls + 1
  /\ pc' = "reformat"
  /\ UNCHANGED <<error_patterns, correction_map, detected_encoding, language,
                 doc, method, best_text, best_score, raw_text, corrected_text,
                 structured_text, final_text, result, output_file, calls, ran,
                 formatter_log>>
  /\ UNCHANGED probe

\* the test fails: the first result is final
AcceptFormat ==
  /\ pc = "check"
  /\ ~(Contains(final_text, <<REPLACEMENT>>) /\ ~sanitization_attempted)
  /\ pc' = "write"
  /\ UNCHANGED <<state, locals, observed>>
  /\ UNCHANGED probe

\* final_text = self.process_with_docling(sanitized_text)
Reformat ==
  /\ pc = "reformat"
  /\ \E outcome \in FormatterOutcomes, enc \in ChardetEncodings :
       /\ FormatterRaises(outcome) \/ enc = "ascii"
       /\ CallFormatter(sanitized_text, outcome, enc, "write")
  /\ UNCHANGED <<state, doc, method, best_text, best_score, raw_text,
                 corrected_text, structured_text, sanitized_text,
                 output_file, calls, ran>>
  /\ UNCHANGED probe

\* with open(output_path, "w") as f: f.write(final_text); return final_text
WriteOutput ==
  /\ pc = "write"
  /\ output_file' = [written |-> TRUE, text |-> final_text]
  /\ result' = "text"
  /\ pc' = "returned"
  /\ UNCHANGED <<state, locals, calls, ran, fallback_calls, formatter_log>>
  /\ UNCHANGED probe

\* open() raises (output_dir missing or not writable): the exception leaves
\* process_file
WriteFails ==
  /\ pc = "write"
  /\ result' = "OSError"
  /\ pc' = "returned"
  /\ UNCHANGED <<state, locals, output_file, calls, ran, fallback_calls, formatter_log>>
  /\ UNCHANGED probe

Next ==
  \/ \E d \in Documents : ProcessFile(d)
  \/ ExtractMethod
  \/ ExtractDone
  \/ AnalyzeErrors
  \/ AnalyzeErrorsRaises
  \/ AutoCorrect
  \/ EnhanceStructure
  \/ Format
  \/ Resanitize
  \/ AcceptFormat
  \/ Reformat
  \/ WriteOutput
  \/ WriteFails

Spec == Init /\ [][Next]_vars

(* ------------------- the text functions on their own ------------------- *)

\* how many pieces a text of the corrector's specification is made of
MaxPieces == 3

Pieces ==
  { <<"a">>, <<"B">>, <<" ">>, <<".">>, <<"5">>, <<"A","r","t",".">>,
    <<A_TILDE, SECT>>, <<A_CIRC, EURO, TRADEMARK>>, <<"P", I_CIRC, "S">>,
    <<"-", NL, "b">>, <<" ", "-", "b">> }

RECURSIVE TextsOf(_)
TextsOf(n) ==
  IF n = 0 THEN {<<>>}
  ELSE TextsOf(n - 1) \cup {t \o p : t \in TextsOf(n - 1), p \in Pieces}

Languages == {"portuguese", "english", "unknown"}

\* a fresh processor, a text and the language detected for its document
InitText ==
  /\ error_patterns = <<>>
  /\ correction_map = <<>>
  /\ detected_encoding = "None"
  /\ language \in Languages
  /\ sanitization_attempted = FALSE
  /\ pc = "text"
  /\ doc = NoDocument
  /\ method = 1
  /\ best_text = <<>> /\ best_score = ZeroScore
  /\ raw_text \in TextsOf(MaxPieces)
  /\ corrected_text = <<>> /\ structured_text = <<>>
  /\ sanitized_text = <<>> /\ final_text = <<>>
  /\ result = "pending"
  /\ output_file = NoFile
  /\ calls = 0
  /\ ran = <<>>
  /\ fallback_calls = 0
  /\ formatter_log = <<>>
  /\ recorrected_text = <<>>
  /\ candidates = << <<>>, <<>> >>
  /\ scores = <<ZeroScore, ZeroScore>>

\* self.analyze_errors(text)
TextAnalyze ==
  /\ pc = "text"
  /\ \E enc \in DetectedEncodings : detected_encoding' = enc
  /\ LET a == analyze_errors(raw_text, error_patterns, correction_map, language)
     IN  /\ error_patterns' = a.error_patterns
         /\ correction_map' = a.correction_map
  /\ pc' = "text_analyzed"
  /\ UNCHANGED <<language, sanitization_attempted, locals, observed, probe>>

\* self.auto_correct(text)
TextCorrect ==
  /\ pc = "text_analyzed"
  /\ corrected_text' = auto_correct(raw_text, correction_map, language)
  /\ pc' = "text_corrected"
  /\ UNCHANGED <<state, doc, method, best_text, best_score, raw_text,
                 structured_text, sanitized_text, final_text, observed, probe>>

\* self.auto_correct(corrected)
TextCorrectAgain ==
  /\ pc = "text_corrected"
  /\ recorrected_text' = auto_correct(corrected_text, correction_map, language)
  /\ pc' = "text_recorrected"
  /\ UNCHANGED <<state, locals, observed, candidates, scores>>

NextText == TextAnalyze \/ TextCorrect \/ TextCorrectAgain

SpecText == InitText /\ [][NextText]_vars

(* --------------------------- the scorer on its own --------------------- *)

\* how many steps each character count of a candidate text takes
QualityGrid == 2

\* a candidate text: letters, spaces, replacement characters and other
\* invalid characters, in runs
CandidateTexts ==
  { Rep(<<"a">>, 60 * l) \o Rep(<<" ">>, 12 * s) \o Rep(<<REPLACEMENT>>, 3 * m)
      \o Rep(<<"^">>, 10 * o) :
    l \in 0..QualityGrid, s \in 0..QualityGrid, m \in 0..QualityGrid,
    o \in 0..QualityGrid }

NoScore == [num |-> 0 - 1, den |-> 1]

InitQuality ==
  /\ error_patterns = <<>>
  /\ correction_map = <<>>
  /\ detected_encoding = "None"
  /\ language = "auto"
  /\ sanitization_attempted = FALSE
  /\ pc = "quality"
  /\ doc = NoDocument
  /\ method = 1
  /\ best_text = <<>> /\ best_score = ZeroScore
  /\ raw_text = <<>> /\ corrected_text = <<>> /\ structured_text = <<>>
  /\ sanitized_text = <<>> /\ final_text = <<>>
  /\ result = "pending"
  /\ output_file = NoFile
  /\ calls = 0
  /\ ran = <<>>
  /\ fallback_calls = 0
  /\ formatter_log = <<>>
  /\ recorrected_text = <<>>
  /\ candidates \in CandidateTexts \X CandidateTexts
  /\ scores = <<NoScore, NoScore>>

\* score = self._evaluate_text_quality(text), for the first candidate
ScoreFirst ==
  /\ pc = "quality"
  /\ scores' = <<_evaluate_text_quality(candidates[1]), NoScore>>
  /\ pc' = "quality_first"
  /\ UNCHANGED <<state, locals, observed, recorrected_text, candidates>>

\* and for the second
ScoreSecond ==
  /\ pc = "quality_first"
  /\ scores' = <<scores[1], _evaluate_text_quality(candidates[2])>>
  /\ pc' = "quality_both"
  /\ UNCHANGED <<state, locals, observed, recorrected_text, candidates>>

NextQuality == ScoreFirst \/ ScoreSecond

SpecQuality == InitQuality /\ [][NextQuality]_vars

(* ----------------------- enhance_structure on its own ----------------- *)

\* how many pieces a text of the structurer's specification is made of
MaxLinePieces == 4

\* a chapter line, a numbered line, a bullet line, plain text and the newline
LinePieces ==
  { <<"C","H","A","P","T","E","R"," ","I">>, <<"1",".","1"," ","a">>,
    <<"*"," ","b">>, <<"x">>, <<NL>> }

RECURSIVE LineTextsOf(_)
LineTextsOf(n) ==
  IF n = 0 THEN {<<>>}
  ELSE LineTextsOf(n - 1) \cup {t \o p : t \in LineTextsOf(n - 1), p \in LinePieces}

\* a corrected text about to be structured
InitStructure ==
  /\ error_patterns = <<>>
  /\ correction_map = <<>>
  /\ detected_encoding = "None"
  /\ language = "auto"
  /\ sanitization_attempted = FALSE
  /\ pc = "lines"
  /\ doc = NoDocument
  /\ method = 1
  /\ best_text = <<>> /\ best_score = ZeroScore
  /\ raw_text = <<>>
  /\ corrected_text \in LineTextsOf(MaxLinePieces)
  /\ structured_text = <<>>
  /\ sanitized_text = <<>> /\ final_text = <<>>
  /\ result = "pending"
  /\ output_file = NoFile
  /\ calls = 0
  /\ ran = <<>>
  /\ fallback_calls = 0
  /\ formatter_log = <<>>
  /\ recorrected_text = <<>>
  /\ candidates = << <<>>, <<>> >>
  /\ scores = <<ZeroScore, ZeroScore>>

\* structured_text = self.enhance_structure(corrected_text)
StructureLines ==
  /\ pc = "lines"
  /\ structured_text' = enhance_structure(corrected_text)
  /\ pc' = "lines_structured"
  /\ UNCHANGED <<state, doc, method, best_text, best_score, raw_text,
                 corrected_text, sanitized_text, final_text, observed>>
  /\ UNCHANGED probe

NextStructure == StructureLines

SpecStructure == InitStructure /\ [][NextStructure]_vars

(* --------------------------------- claims ------------------------------ *)

\* a call of process_file is under way or has returned
InCall == calls > 0

\* the extraction of this call has yielded a canonical text
Extracted == InCall /\ raw_text # <<>>

\* C1: during one process_file call, whatever the Formatter does on each
\* invocation, fallback_sanitization runs at most once.
C1_FallbackAtMostOnce == fallback_calls <= 1

\* what an extractor gives on document d, read off the document itself
DocText(name, d) ==
  IF name = "fitz" THEN (IF d.fitz.fails THEN <<>> ELSE d.fitz.text)
  ELSE (IF d.plumber.fails THEN <<>> ELSE d.plumber.text)

\* a text no extraction can be built on: empty, shorter than the minimum,
\* or scored zero
Unusable(t) ==
  \/ t = <<>>
  \/ Len(t) < 100
  \/ ScoreEQ(_evaluate_text_quality(t), ZeroScore)

AllUnusable(d) == \A k \in 1..Len(methods) : Unusable(DocText(methods[k], d))

\* C2: if every extractor fails, returns empty text or text scored zero
\* (any text shorter than 100 characters included), process_file returns
\* None, writes no output file, and never reaches the Formatter or the write.
C2_NoUsableExtraction ==
  (InCall /\ doc.exists /\ AllUnusable(doc)) =>
    /\ pc \in {"extract", "returned"}
    /\ formatter_log = <<>>
    /\ ~output_file.written
    /\ raw_text = <<>>
    /\ pc = "returned" => result = "None"

\* C2 witness: a call returned None on a document one of whose extractors
\* gave a text of full length that scored zero
C2_Witness ==
  /\ pc = "returned" /\ result = "None" /\ doc.exists /\ AllUnusable(doc)
  /\ \E k \in 1..Len(ran) : Len(ran[k].text) >= 100

\* C3: once extraction has yielded a canonical text, a Formatter failure
\* never aborts process_file: every invocation that raises gives the
\* fallback-sanitized text (the ASCII remainder of its input if the
\* fallback itself fails), and a run that has reached the Formatter ends in
\* the output write: it returns the text it wrote, and nothing but the write
\* itself can raise.
C3_FormatterFailureAbsorbed ==
  Extracted =>
    /\ \A k \in 1..Len(formatter_log) :
         LET c == formatter_log[k]
         IN  FormatterRaises(c.outcome) =>
               /\ ~c.raised
               /\ ~Contains(c.output, <<REPLACEMENT>>)
               /\ c.enc = "EUC-TW" => c.output = SelectSeq(c.input, IsAscii)
               /\ c.enc = "utf-8" =>
                    c.output = sanitize_text(DropChars(c.input, {SURROGATE}))
    /\ formatter_log # <<>> => pc \in {"check", "reformat", "write", "returned"}
    /\ (pc = "returned" /\ formatter_log # <<>>) =>
         /\ result \in {"text", "OSError"}
         /\ result = "text" => output_file.written /\ output_file.text = final_text

\* C3 witness: a run whose Formatter raised a generic exception, whose
\* fallback failed as well, and which still wrote and returned its text
C3_Witness ==
  /\ pc = "returned" /\ result = "text" /\ output_file.written
  /\ \E k \in 1..Len(formatter_log) :
       /\ formatter_log[k].outcome = "Exception"
       /\ formatter_log[k].enc = "EUC-TW"
       /\ formatter_log[k].output # formatter_log[k].input

\* what a fresh processor holds after analyzing text t
FreshAnalysis(t) == analyze_errors(t, <<>>, <<>>, detect_language(t))

\* C4: ProcessorState is reset at the start of every process_file call: the
\* error_patterns, correction_map, language and sanitization_attempted used
\* while a document is processed depend only on that document.
C4_StateDependsOnDocumentOnly ==
  /\ (InCall /\ pc = "extract") =>
       /\ error_patterns = <<>> /\ correction_map = <<>>
       /\ ~sanitization_attempted
  /\ (InCall /\ pc \in {"correct", "structure", "format"}) =>
       /\ error_patterns = FreshAnalysis(raw_text).error_patterns
       /\ correction_map = FreshAnalysis(raw_text).correction_map
       /\ language = detect_language(raw_text)
       /\ ~sanitization_attempted

\* C5: correction is idempotent: auto_correct applied to its own output,
\* with the same correction_map and language, changes nothing.
C5_CorrectionIdempotent ==
  pc = "text_recorrected" => recorrected_text = corrected_text

\* C6: for a text that holds a key of the known-fixes table, analyze_errors
\* followed by auto_correct puts the table's character in its place, and a
\* second auto_correct leaves it there.
C6_KnownFixApplied ==
  pc = "text_recorrected" =>
    \A k \in 1..Len(common_fixes) :
      Contains(raw_text, common_fixes[k][1]) =>
        /\ ~Contains(corrected_text, common_fixes[k][1])
        /\ Contains(corrected_text, common_fixes[k][2])
        /\ Contains(recorrected_text, common_fixes[k][2])

\* the ratios of the scorer compared across two texts, without division
ValidHigher(a, b) == valid_chars(a) * Len(b) > valid_chars(b) * Len(a)
ProblemLower(a, b) == problem_chars(a) * Len(b) < problem_chars(b) * Len(a)
InUnitInterval(score) == score.num >= 0 /\ score.num <= score.den

\* the text earns the 0.2 * 0.1 of the space ratio
SpaceBonus(t) == Len(t) >= 100 /\ SpaceInRange(t)

\* score a is strictly higher than score b
HigherScore(a, b) == a.num * b.den > b.num * a.den

\* C7 as claimed: of any two candidate texts, the one with the higher
\* valid_ratio and the lower problem_ratio gets the strictly higher score,
\* whatever their lengths and space ratios; every score lies in [0,1].
C7_QualityOrderingAnyLength ==
  pc = "quality_both" =>
    /\ InUnitInterval(scores[1]) /\ InUnitInterval(scores[2])
    /\ ( /\ Len(candidates[1]) > 0 /\ Len(candidates[2]) > 0
         /\ ValidHigher(candidates[1], candidates[2])
         /\ ProblemLower(candidates[1], candidates[2]) )
       => HigherScore(scores[1], scores[2])

\* C7 as amended: the ordering holds when the candidate with the higher
\* valid_ratio has at least 100 characters and the other one earns no
\* space-ratio bonus that it misses; every score lies in [0,1].
C7_QualityOrdering ==
  pc = "quality_both" =>
    /\ InUnitInterval(scores[1]) /\ InUnitInterval(scores[2])
    /\ ( /\ Len(candidates[1]) >= 100 /\ Len(candidates[2]) > 0
         /\ SpaceBonus(candidates[2]) => SpaceBonus(candidates[1])
         /\ ValidHigher(candidates[1], candidates[2])
         /\ ProblemLower(candidates[1], candidates[2]) )
       => HigherScore(scores[1], scores[2])

\* C7 witness: two scored candidates of different lengths, both long enough,
\* the first with the higher valid_ratio and the lower, non-zero problem_ratio
C7_Witness ==
  /\ pc = "quality_both"
  /\ Len(candidates[1]) >= 100 /\ Len(candidates[2]) >= 100
  /\ Len(candidates[1]) # Len(candidates[2])
  /\ SpaceBonus(candidates[2]) => SpaceBonus(candidates[1])
  /\ ValidHigher(candidates[1], candidates[2])
  /\ ProblemLower(candidates[1], candidates[2])
  /\ problem_chars(candidates[1]) > 0
  /\ HigherScore(scores[1], scores[2])

\* position j of t holds the hyphen of a word split: word-<newline>word
SplitAt(t, j) ==
  /\ t[j] = "-" /\ j > 1 /\ IsWord(t[j - 1])
  /\ SkipSpace(t, j + 1) <= Len(t) /\ IsWord(t[SkipSpace(t, j + 1)])
  /\ \E x \in (j + 1)..(SkipSpace(t, j + 1) - 1) : t[x] = NL

\* t is made of words and word splits only
OnlyWordsAndSplits(t) ==
  /\ \E j \in 1..Len(t) : SplitAt(t, j)
  /\ \A j \in 1..Len(t) :
       \/ IsWord(t[j])
       \/ SplitAt(t, j)
       \/ IsSpace(t[j]) /\ \E h \in 1..(j - 1) :
                             SplitAt(t, h) /\ j < SkipSpace(t, h + 1)

\* C8: for every input that holds a word split as word-<newline>word,
\* auto_correct joins the halves: its output holds neither the hyphen nor
\* the newline of the split.
C8_SplitWordsJoined ==
  (pc = "text_corrected" /\ OnlyWordsAndSplits(raw_text)) =>
    /\ ~Contains(corrected_text, <<"-">>)
    /\ ~Contains(corrected_text, <<NL>>)

\* the extraction loop of this call is over
ExtractionOver == InCall /\ doc.exists /\ (pc # "extract" \/ method > Len(methods))

\* C9: an extractor that fails yields an empty result, every other extractor
\* is still run and scored, nothing propagates out of extract_text, and if
\* another extractor gives usable text, extract_text returns usable text.
C9_ExtractorFailuresIsolated ==
  ExtractionOver =>
    /\ Len(ran) = Len(methods)
    /\ \A k \in 1..Len(ran) :
         /\ ran[k].method = methods[k]
         /\ ran[k].failed => ran[k].text = <<>>
         /\ ~ran[k].failed => ran[k].text = DocText(methods[k], doc)
         /\ ran[k].text # <<>> => ran[k].scored
    /\ pc = "extract" => result = "pending"
    /\ (~AllUnusable(doc) /\ pc # "extract") =>
         /\ result # "None"
         /\ ~Unusable(raw_text)
         /\ \E k \in 1..Len(methods) : raw_text = DocText(methods[k], doc)

\* C9 witness: the first extractor failed and the text of the second one
\* became the canonical extraction
C9_Witness ==
  /\ pc = "analyze" /\ doc.fitz.fails /\ ~doc.plumber.fails
  /\ raw_text = doc.plumber.text /\ ~Unusable(raw_text)

\* the score the scorer gives the output of the k-th extractor
DocScore(k, d) == _evaluate_text_quality(DocText(methods[k], d))

\* C10: the text extract_text returns is the extractor output with the
\* strictly highest score over all extractors; of two outputs that score
\* equally, the one earlier in the list (fitz before pdfplumber) is kept.
\* (When no output is usable there is no text to select: the case of C2.)
C10_CanonicalSelection ==
  (ExtractionOver /\ pc # "extract" /\ ~AllUnusable(doc)) =>
    \E w \in 1..Len(methods) :
      /\ raw_text = DocText(methods[w], doc)
      /\ \A k \in 1..Len(methods) :
           /\ ~HigherScore(DocScore(k, doc), DocScore(w, doc))
           /\ k < w => HigherScore(DocScore(w, doc), DocScore(k, doc))

\* C10 witness: two different outputs scored equally and the first was kept
C10_Witness ==
  /\ pc = "analyze"
  /\ DocText("fitz", doc) # DocText("plumber", doc)
  /\ ~HigherScore(DocScore(1, doc), DocScore(2, doc))
  /\ ~HigherScore(DocScore(2, doc), DocScore(1, doc))
  /\ raw_text = DocText("fitz", doc)

\* the result of the k-th Formatter invocation holds the marker
MarkerIn(k) ==
  ~formatter_log[k].raised /\ Contains(formatter_log[k].output, <<REPLACEMENT>>)

\* the marker test of process_file on the first result is over
CheckOver == InCall /\ Len(formatter_log) >= 1 /\ pc \in {"reformat", "write", "returned"}

\* C11: the Formatter is invoked a second time if and only if the first
\* result holds the replacement-character marker and sanitization_attempted
\* is false; the input of the second invocation is the fallback-sanitized
\* original extraction; its result is final even if it still holds markers;
\* and the Formatter is never invoked more than twice per document.
C11_SingleRetryOnOriginal ==
  InCall =>
    /\ Len(formatter_log) <= 2
    /\ pc = "check" => ~sanitization_attempted
    /\ Len(formatter_log) = 2 =>
         /\ MarkerIn(1)
         /\ sanitization_attempted
         /\ \E enc \in ChardetEncodings :
              formatter_log[2].input = fallback_sanitization(raw_text, enc)
    /\ (CheckOver /\ MarkerIn(1)) =>
         /\ sanitization_attempted
         /\ pc # "reformat" => Len(formatter_log) = 2
    /\ (CheckOver /\ ~formatter_log[1].raised /\ ~MarkerIn(1)) =>
         /\ Len(formatter_log) = 1 /\ pc # "reformat"
    /\ (pc = "write" \/ (pc = "returned" /\ result = "text")) =>
         final_text = formatter_log[Len(formatter_log)].output
    /\ (pc = "returned" /\ result = "text") => output_file.text = final_text

\* C11 witness: a second invocation ran on a sanitized extraction that is
\* neither the corrected nor the structured text, its result still held the
\* marker and was written
C11_Witness ==
  /\ pc = "returned" /\ result = "text"
  /\ Len(formatter_log) = 2
  /\ formatter_log[2].input # structured_text
  /\ formatter_log[2].input # corrected_text
  /\ \A enc \in ChardetEncodings :
       formatter_log[2].input # fallback_sanitization(structured_text, enc)
  /\ MarkerIn(2)
  /\ Contains(output_file.text, <<REPLACEMENT>>)

\* the ProcessorState fields a failed stage must not touch
analysis_state == <<error_patterns, correction_map, detected_encoding, language>>

\* C12: a failed stage leaves ProcessorState unchanged: when process_file
\* fails because the input is missing or no extraction is usable, and when
\* analyze_errors or a Formatter call raises part-way, error_patterns,
\* correction_map, detected_encoding and language hold exactly the values
\* they had before that stage started.
C12_FailedStageKeepsState ==
  [][ /\ (pc \in {"idle", "returned", "extract"} /\ pc' = "returned" /\ result' = "None")
         => UNCHANGED analysis_state
      /\ (pc = "analyze" /\ pc' = "returned")
         => UNCHANGED analysis_state
      /\ ( /\ Len(formatter_log') = Len(formatter_log) + 1
           /\ FormatterRaises(formatter_log'[Len(formatter_log')].outcome) )
         => UNCHANGED analysis_state
    ]_vars

\* the positions at which a line of t begins
LineStarts(t) == {p \in 1..Len(t) : p = 1 \/ t[p - 1] = NL}

\* the line at p begins with CAPITULO/CHAPTER, blanks and a roman numeral
ChapterLineAt(t, p) ==
  LET w == FirstAlt(t, p, ChapterWords, 1)
      k == p + Len(w) + 1
  IN  /\ w # <<>>
      /\ k <= Len(t) /\ t[k - 1] = " "
      /\ SkipRoman(t, k) > k

\* the line at p begins with a decimal numbering and has text after it
NumberedLineAt(t, p) ==
  LET a == SkipDigits(t, p)
      b == SkipDigits(t, a + 1)
  IN  /\ a > p /\ a <= Len(t) /\ t[a] = "."
      /\ b > a + 1 /\ b + 1 <= Len(t) /\ t[b] = " " /\ t[b + 1] # NL

\* the line at p begins with a bullet glyph and a blank
BulletLineAt(t, p) ==
  p + 1 <= Len(t) /\ t[p] \in {"-", "*", BULLET} /\ t[p + 1] = " "

\* how many lines of t begin with the prefix
LinesWith(t, prefix) == Cardinality({p \in LineStarts(t) : StartsAt(t, p, prefix)})

\* the three rules of enhance_structure applied in another order
SectionsChaptersBullets(t) == NormalizeBullets(MarkChapters(MarkSections(t, 1), 1), 1)
BulletsChaptersSections(t) == MarkSections(MarkChapters(NormalizeBullets(t, 1), 1), 1)
ChaptersBulletsSections(t) == MarkSections(NormalizeBullets(MarkChapters(t, 1), 1), 1)

\* C13: every line of the text given to enhance_structure that begins with
\* CAPITULO/CHAPTER and a roman numeral becomes a '## ' heading line, every
\* line that begins with a decimal numbering becomes a '### ' heading line,
\* every line that begins with a bullet glyph is normalised to '- ', the
\* first line of the text included, and the result does not depend on the
\* order in which the three rules are applied.
C13_EveryLineStructured ==
  pc = "lines_structured" =>
    /\ LinesWith(structured_text, <<"#", "#", " ">>)
         = Cardinality({p \in LineStarts(corrected_text) : ChapterLineAt(corrected_text, p)})
    /\ LinesWith(structured_text, <<"#", "#", "#", " ">>)
         = Cardinality({p \in LineStarts(corrected_text) : NumberedLineAt(corrected_text, p)})
    /\ LinesWith(structured_text, <<"-", " ">>)
         = Cardinality({p \in LineStarts(corrected_text) : BulletLineAt(corrected_text, p)})
    /\ structured_text = SectionsChaptersBullets(corrected_text)
    /\ structured_text = BulletsChaptersSections(corrected_text)
    /\ structured_text = ChaptersBulletsSections(corrected_text)

====
